---- MODULE Spec2Model ----
(***************************************************************************)
(* Model of static/js/admin/dashboard.js: the admin dashboard controller.  *)
(* State: the module-level chart slot references, the shared modal, the    *)
(* DOM elements the script reads and writes, the control values, and the   *)
(* fetches in flight.  Chart.js instances and the objects handed to them   *)
(* (config.data, config.options, the arrays inside) live in a heap so that *)
(* sharing between two charts is observable.                               *)
(***************************************************************************)
EXTENDS Integers, Sequences, FiniteSets, TLC

\* ------------------------------------------------------------------ bounds
MaxLoads == 2          \* chart-statistics requests issued per page lifetime
MaxClicks == 2         \* expand clicks on slot canvases
MaxWrites == 1         \* charts whose data or options are written after construction
MaxText == 2           \* characters of an activity text drawn from Alphabet
ExtraRows == 5         \* entries a long dataset has beyond the slot's limit

\* ------------------------------------------------------- program constants
CatLimit == 20         \* slice(0, 20)
LangLimit == 12        \* slice(0, 12)
PaletteLen == 10       \* base.length in buildBarColors
ExcerptLen == 200      \* text.substring(0, 200)

Slots == <<"booksPerCategory", "loansOverTime", "loanStatus", "language">>
SlotSet == {Slots[i] : i \in 1..Len(Slots)}

\* canvas element id of a slot
CanvasId(s) == s \o "Chart"

CounterIds == <<"books-count", "users-count", "pending-requests", "overdue-loans">>
CounterSet == {CounterIds[i] : i \in 1..Len(CounterIds)}

AllElements ==
    {CanvasId(s) : s \in SlotSet} \cup CounterSet
        \cup {"recent-activity-list", "stats-period", "stats-year", "stats-month", "label-month"}

\* the title each slot's click listener passes to openModalForChart
SlotTitle(s) ==
    CASE s = "booksPerCategory" -> "So luong sach theo the loai"
      [] s = "loansOverTime" -> "Xu huong muon theo thoi gian"
      [] s = "loanStatus" -> "Trang thai yeu cau muon sach"
      [] s = "language" -> "Ngon ngu sach trong thu vien"

\* the chart type each render function constructs
SlotType(s) ==
    CASE s = "booksPerCategory" -> "doughnut"
      [] s = "loansOverTime" -> "line"
      [] s = "loanStatus" -> "doughnut"
      [] s = "language" -> "bar"

\* the options literal each render function passes to new Chart
SlotOptions(s) ==
    IF s \in {"booksPerCategory", "loanStatus"}
    THEN [responsive |-> TRUE, plugins |-> TRUE, legend |-> "position:bottom", scalesY |-> FALSE,
          zoom |-> FALSE, maintainAspectRatio |-> "unset", zoomLevel |-> 0]
    ELSE [responsive |-> TRUE, plugins |-> TRUE, legend |-> "display:false", scalesY |-> TRUE,
          zoom |-> FALSE, maintainAspectRatio |-> "unset", zoomLevel |-> 0]

\* the label of the single dataset of each slot
SlotDatasetLabel(s) ==
    CASE s = "booksPerCategory" -> "Sach"
      [] s = "loansOverTime" -> "Luot muon"
      [] s = "loanStatus" -> "Yeu cau"
      [] s = "language" -> "So luong sach"

\* ------------------------------------------------------------------ helpers
TakeAll(seq, n) == seq

\* seq.slice(0, n)
Take(seq, n) == SubSeq(seq, 1, IF Len(seq) < n THEN Len(seq) ELSE n)

\* buildBarColors(n): palette entry i % base.length for i = 0..n-1 (entries numbered from 1)
buildBarColors(n) == [i \in 1..n |-> ((i - 1) % PaletteLen) + 1]

\* --------------------------------------------------------------- variables
VARIABLES
    pc,                 \* "loaded" before AdminDashboard.init runs, "ready" after
    dom,                \* ids of the elements present in the page
    zoomPlugin,         \* whether the zoom plugin is present in the runtime
    zoomRegistered,     \* whether Chart.register(zoomPlugin) has run
    slotChart,          \* the four module-level chart references (0 = null)
    canvasListeners,    \* number of click listeners bound to each slot canvas
    insts,              \* every Chart instance ever constructed, by id
    dataObjs,           \* heap: config.data objects
    arrays,             \* heap: arrays referenced by config.data objects
    optObjs,            \* heap: config.options objects
    modalEl,            \* the module-level modal reference (0 = null)
    bodyModals,         \* overlays appended to document.body
    modalDisplay,       \* modal.style.display
    modalTitle,         \* modalTitleEl.textContent
    modalChartInstance, \* the module-level modal chart reference (0 = null)
    modalRegs,          \* addEventListener calls made for close / backdrop / reset
    peakModal,          \* most live modal charts seen right after a construction
    lastClick,          \* the last expand click: slot, slot chart then, listeners run, modal open then
    touched,            \* charts whose own data or options were written after construction
    clicks,             \* expand clicks so far
    controls,           \* values of the period, year and month controls
    ctlListeners,       \* listeners registered on the controls, per event
    monthDisplay,       \* style.display of the month control and of its label
    counters,           \* text of the four counter elements
    activityList,       \* content of the activity list
    summary,            \* the summary fetch issued by init
    activity,           \* the activity fetch issued by init
    loads,              \* every chart-statistics fetch issued, in order of issue
    settled,            \* chart-statistics fetches in the order their first continuation ran
    errors              \* console.error calls, per load

Undef == 0

\* the chart-side state as one value, so that a handler is a function on it
World ==
    [slotChart |-> slotChart, canvasListeners |-> canvasListeners, insts |-> insts,
     dataObjs |-> dataObjs, arrays |-> arrays, optObjs |-> optObjs, modalEl |-> modalEl,
     bodyModals |-> bodyModals, modalDisplay |-> modalDisplay, modalTitle |-> modalTitle,
     modalChartInstance |-> modalChartInstance, modalRegs |-> modalRegs,
     peakModal |-> peakModal, threw |-> FALSE]

\* ------------------------------------------------------------------- heap
Arr(items) == [def |-> TRUE, items |-> items]
NoArr == [def |-> FALSE, items |-> <<>>]

ArrayView(w, a) == IF a = Undef THEN NoArr ELSE Arr(w.arrays[a])

AllocArr(w, v) == IF v.def THEN [w EXCEPT !.arrays = Append(@, v.items)] ELSE w

AddrOf(w0, w1) == IF Len(w1.arrays) > Len(w0.arrays) THEN Len(w1.arrays) ELSE Undef

\* a data literal {labels, datasets: [{label, data, backgroundColor}]}: one object, three arrays
AllocData(w, label, L, V, C) ==
    LET w1 == AllocArr(w, L)
        w2 == AllocArr(w1, V)
        w3 == AllocArr(w2, C)
    IN [w3 EXCEPT !.dataObjs = Append(@, [labels |-> AddrOf(w, w1), label |-> label,
                                          data |-> AddrOf(w1, w2),
                                          backgroundColor |-> AddrOf(w2, w3)])]

\* what a chart shows: the contents its config reaches at this moment
ViewOf(w, d, o) ==
    [label |-> w.dataObjs[d].label,
     labels |-> ArrayView(w, w.dataObjs[d].labels),
     values |-> ArrayView(w, w.dataObjs[d].data),
     colors |-> ArrayView(w, w.dataObjs[d].backgroundColor),
     options |-> w.optObjs[o]]

View(w, id) == ViewOf(w, w.insts[id].data, w.insts[id].options)

LiveOn(w, canvas) == {i \in 1..Len(w.insts) : w.insts[i].canvas = canvas /\ w.insts[i].live}

Max(a, b) == IF a > b THEN a ELSE b

\* new Chart(ctx, {type, data, options}): the instance keeps the objects it is handed
NewChart(w, canvas, type, d, o) ==
    LET w1 == [w EXCEPT !.insts = Append(@, [canvas |-> canvas, type |-> type, data |-> d,
                                             options |-> o, live |-> TRUE,
                                             born |-> ViewOf(w, d, o)])]
    IN IF canvas = "modal"
       THEN [w1 EXCEPT !.peakModal = Max(@, Cardinality(LiveOn(w1, "modal")))]
       ELSE w1

\* chart.destroy()
Destroy(w, id) == [w EXCEPT !.insts[id].live = FALSE]

Throw(w) == [w EXCEPT !.threw = TRUE]

\* ------------------------------------------------------- statistics payloads
\* A dataset field of the payload: absent, an array of entries, or a truthy
\* value that is no array (an object: it has neither slice nor map).
Missing == [kind |-> "missing", items |-> <<>>]
NotArray == [kind |-> "object", items |-> <<>>]
ArrayOf(items) == [kind |-> "array", items |-> items]

\* entry i of a dataset the server computed for query code c
Entry(c, i) == [name |-> i, total |-> c * 100 + i]
Entries(c, n) == [i \in 1..n |-> Entry(c, i)]

\* the time_series field: absent, {labels, values}, or a truthy value without either key
NoSeries == [kind |-> "missing", labels |-> <<>>, values |-> <<>>]
Scalar == [kind |-> "scalar", labels |-> <<>>, values |-> <<>>]
Series(c, n) == [kind |-> "series", labels |-> [i \in 1..n |-> i],
                 values |-> [i \in 1..n |-> c * 100 + i]]

\* the shapes of JSON body the statistics endpoint is modelled to send
Shapes == {"full", "empty", "noLoans", "badStatus", "null"}

\* What one dataset field of a body holds: "rows" a short array, "edge" an array
\* of exactly the slot's limit, "long" one of ExtraRows more, "empty" an empty
\* array, "missing" no such field, "object" a value that is not an array.
DatasetKinds == {"rows", "missing", "empty"}

\* bodies in which each of the four datasets is independently present, missing
\* or empty, named after the four kinds
PartialKinds == [1..4 -> DatasetKinds]
PartialName(q) == "part:" \o q[1] \o "," \o q[2] \o "," \o q[3] \o "," \o q[4]
PartialShapes == {PartialName(q) : q \in PartialKinds}

\* the kinds of category_book_counts, time_series, status_distribution and
\* language_distribution in a body of shape sh
Kinds(sh) ==
    CASE sh = "empty" -> <<"missing", "missing", "empty", "empty">>
      [] sh = "badStatus" -> <<"rows", "object", "object", "rows">>
      [] sh = "badCategory" -> <<"object", "rows", "rows", "rows">>
      [] sh = "badLanguage" -> <<"rows", "rows", "rows", "object">>
      [] sh = "long" -> <<"long", "rows", "rows", "long">>
      [] sh = "edge" -> <<"edge", "rows", "rows", "edge">>
      [] sh \in PartialShapes -> CHOOSE q \in PartialKinds : PartialName(q) = sh
      [] OTHER -> <<"rows", "rows", "rows", "rows">>

\* an array dataset of kind k for a slot that keeps at most limit entries
Dataset(k, c, limit) ==
    CASE k = "missing" -> Missing
      [] k = "object" -> NotArray
      [] k = "empty" -> ArrayOf(<<>>)
      [] k = "edge" -> ArrayOf(Entries(c, limit))
      [] k = "long" -> ArrayOf(Entries(c, limit + ExtraRows))
      [] OTHER -> ArrayOf(Entries(c, 2))

\* the time_series field of kind k
TimeSeries(k, c) ==
    CASE k = "missing" -> NoSeries
      [] k = "object" -> Scalar
      [] k = "empty" -> Series(c, 0)
      [] OTHER -> Series(c, 3)

\* the parsed body of shape sh computed for query code c
Payload(sh, c) ==
    [isNull |-> sh = "null",
     basic |-> TRUE, requests |-> TRUE, loans |-> sh # "noLoans",
     total_books |-> 1000 + c, total_users |-> 12, pending |-> 3, overdue |-> 1234567,
     category_book_counts |-> Dataset(Kinds(sh)[1], c, CatLimit),
     time_series |-> TimeSeries(Kinds(sh)[2], c),
     status_distribution |-> Dataset(Kinds(sh)[3], c, CatLimit),
     language_distribution |-> Dataset(Kinds(sh)[4], c, LangLimit)]

\* x || []
OrEmpty(ds) == IF ds.kind = "missing" THEN ArrayOf(<<>>) ELSE ds

Names(items) == [i \in 1..Len(items) |-> items[i].name]
Totals(items) == [i \in 1..Len(items) |-> items[i].total]

\* ------------------------------------------------------------ slot renders
\* The tail every render function shares: look the canvas up, destroy the slot's
\* chart if there is one, construct the new one, bind a click listener.
MountChartNoDestroy(w, s, L, V, C) ==
    IF CanvasId(s) \notin dom THEN w
    ELSE LET w2 == AllocData(w, SlotDatasetLabel(s), L, V, C)
             w3 == [w2 EXCEPT !.optObjs = Append(@, SlotOptions(s))]
             w4 == NewChart(w3, s, SlotType(s), Len(w3.dataObjs), Len(w3.optObjs))
         IN [w4 EXCEPT !.slotChart[s] = Len(w4.insts), !.canvasListeners[s] = @ + 1]

MountChartDropModal(w, s, L, V, C) ==
    IF CanvasId(s) \notin dom THEN w
    ELSE LET w0 == IF w.modalChartInstance # Undef THEN Destroy(w, w.modalChartInstance) ELSE w
             w1 == IF w0.slotChart[s] # Undef THEN Destroy(w0, w0.slotChart[s]) ELSE w0
             w2 == AllocData(w1, SlotDatasetLabel(s), L, V, C)
             w3 == [w2 EXCEPT !.optObjs = Append(@, SlotOptions(s))]
             w4 == NewChart(w3, s, SlotType(s), Len(w3.dataObjs), Len(w3.optObjs))
         IN [w4 EXCEPT !.slotChart[s] = Len(w4.insts), !.canvasListeners[s] = @ + 1]

MountChart(w, s, L, V, C) ==
    IF CanvasId(s) \notin dom THEN w
    ELSE LET w1 == IF w.slotChart[s] # Undef THEN Destroy(w, w.slotChart[s]) ELSE w
             w2 == AllocData(w1, SlotDatasetLabel(s), L, V, C)
             w3 == [w2 EXCEPT !.optObjs = Append(@, SlotOptions(s))]
             w4 == NewChart(w3, s, SlotType(s), Len(w3.dataObjs), Len(w3.optObjs))
         IN [w4 EXCEPT !.slotChart[s] = Len(w4.insts), !.canvasListeners[s] = @ + 1]

renderBooksPerCategoryChart(w, data) ==
    IF data.isNull \/ data.category_book_counts.kind = "object" THEN Throw(w)
    ELSE LET bpc == Take(OrEmpty(data.category_book_counts).items, CatLimit)
         IN MountChart(w, "booksPerCategory", Arr(Names(bpc)), Arr(Totals(bpc)),
                       Arr(buildBarColors(Len(bpc))))

renderLoansOverTimeChart(w, data) ==
    IF data.isNull THEN Throw(w)
    ELSE LET ts == data.time_series
             L == IF ts.kind = "scalar" THEN NoArr ELSE Arr(ts.labels)
             V == IF ts.kind = "scalar" THEN NoArr ELSE Arr(ts.values)
         IN MountChart(w, "loansOverTime", L, V, NoArr)

renderLoanStatusChart(w, data) ==
    IF data.isNull \/ data.status_distribution.kind = "object" THEN Throw(w)
    ELSE LET sd == OrEmpty(data.status_distribution).items
         IN MountChart(w, "loanStatus", Arr(Names(sd)), Arr(Totals(sd)),
                       Arr(buildBarColors(Len(sd))))

renderLanguageChart(w, data) ==
    IF data.isNull \/ data.language_distribution.kind = "object" THEN Throw(w)
    ELSE LET ld == Take(OrEmpty(data.language_distribution).items, LangLimit)
         IN MountChart(w, "language", Arr(Names(ld)), Arr(Totals(ld)),
                       Arr(buildBarColors(Len(ld))))

renderChartsAllOrNothing(w, data) ==
    IF \E f \in {data.category_book_counts, data.status_distribution, data.language_distribution} :
           f.kind = "missing"
    THEN w
    ELSE LET w1 == renderBooksPerCategoryChart(w, data)
             w2 == IF w1.threw THEN w1 ELSE renderLoansOverTimeChart(w1, data)
             w3 == IF w2.threw THEN w2 ELSE renderLoanStatusChart(w2, data)
         IN IF w3.threw THEN w3 ELSE renderLanguageChart(w3, data)

\* renderCharts(data): the four renders in order; an exception ends the call
renderCharts(w, data) ==
    LET w1 == renderBooksPerCategoryChart(w, data)
        w2 == IF w1.threw THEN w1 ELSE renderLoansOverTimeChart(w1, data)
        w3 == IF w2.threw THEN w2 ELSE renderLoanStatusChart(w2, data)
    IN IF w3.threw THEN w3 ELSE renderLanguageChart(w3, data)

\* -------------------------------------------------------------------- modal
ensureModalAlways(w) ==
    [w EXCEPT !.bodyModals = @ + 1, !.modalEl = w.bodyModals + 1, !.modalDisplay = "",
              !.modalTitle = "Bieu do",
              !.modalRegs = [close |-> @.close + 1, backdrop |-> @.backdrop + 1,
                             reset |-> @.reset + 1]]

\* ensureModal(): build the overlay, append it, wire the three handlers; once
ensureModal(w) ==
    IF w.modalEl # Undef THEN w
    ELSE [w EXCEPT !.bodyModals = @ + 1, !.modalEl = w.bodyModals + 1, !.modalDisplay = "",
                   !.modalTitle = "Bieu do",
                   !.modalRegs = [close |-> @.close + 1, backdrop |-> @.backdrop + 1,
                                  reset |-> @.reset + 1]]

\* JSON.parse(JSON.stringify(sourceChart.config.data)): a new object with new arrays;
\* a key whose value is undefined is dropped and so stays undefined in the copy
CloneDataShared(w, d) == [w EXCEPT !.dataObjs = Append(@, w.dataObjs[d])]

CloneData(w, d) ==
    AllocData(w, w.dataObjs[d].label, ArrayView(w, w.dataObjs[d].labels),
              ArrayView(w, w.dataObjs[d].data), ArrayView(w, w.dataObjs[d].backgroundColor))

\* the options copy with the modal's additions merged in
ModalOptions(src) ==
    [src EXCEPT !.plugins = TRUE,
                !.legend = IF @ = "unset" THEN "position:top" ELSE @,
                !.zoom = TRUE,
                !.maintainAspectRatio = "false"]

openModalForChartNoDestroy(w, sourceChart, titleText) ==
    LET w1 == [ensureModal(w) EXCEPT !.modalTitle = IF titleText = "" THEN "Bieu do" ELSE titleText]
        w2 == CloneData(w1, w1.insts[sourceChart].data)
        w3 == [w2 EXCEPT !.optObjs = Append(@, ModalOptions(w2.optObjs[w2.insts[sourceChart].options]))]
        w5 == NewChart(w3, "modal", w3.insts[sourceChart].type, Len(w3.dataObjs), Len(w3.optObjs))
    IN [w5 EXCEPT !.modalChartInstance = Len(w5.insts), !.modalDisplay = "flex"]

\* openModalForChart(sourceChart, titleText)
openModalForChart(w, sourceChart, titleText) ==
    LET w1 == [ensureModal(w) EXCEPT !.modalTitle = IF titleText = "" THEN "Bieu do" ELSE titleText]
        w2 == CloneData(w1, w1.insts[sourceChart].data)
        w3 == [w2 EXCEPT !.optObjs = Append(@, ModalOptions(w2.optObjs[w2.insts[sourceChart].options]))]
        w4 == IF w3.modalChartInstance # Undef THEN Destroy(w3, w3.modalChartInstance) ELSE w3
        w5 == NewChart(w4, "modal", w4.insts[sourceChart].type, Len(w4.dataObjs), Len(w4.optObjs))
    IN [w5 EXCEPT !.modalChartInstance = Len(w5.insts), !.modalDisplay = "flex"]

closeModalKeepChart(w) == [w EXCEPT !.modalDisplay = "none"]

\* closeModal: hide the overlay, destroy and forget the modal chart
closeModal(w) ==
    LET w1 == [w EXCEPT !.modalDisplay = "none"]
    IN IF w1.modalChartInstance # Undef
       THEN [Destroy(w1, w1.modalChartInstance) EXCEPT !.modalChartInstance = Undef]
       ELSE w1

\* ------------------------------------------------------------------ fetches
\* What the network hands a fetch: no response at all, or a response with a status,
\* a content-type header ("" when absent) and a body that is JSON of some shape or not.
NetworkFailure == [net |-> FALSE, status |-> 0, ctype |-> "", json |-> FALSE, shape |-> "none", len |-> 0]
Resp(status, ctype, json, shape, len) ==
    [net |-> TRUE, status |-> status, ctype |-> ctype, json |-> json, shape |-> shape, len |-> len]

JsonType == "application/json; charset=utf-8"
HtmlType == "text/html; charset=utf-8"

IncludesJsonExact(ctype) == ctype = "application/json"

\* contentType.includes('application/json')
IncludesJson(ctype) == ctype \in {"application/json", JsonType}

\* response.ok
Ok(resp) == resp.status >= 200 /\ resp.status <= 299

StatsResponses ==
    {NetworkFailure,
     Resp(500, HtmlType, FALSE, "none", 350),
     Resp(200, HtmlType, TRUE, "full", 120),
     Resp(200, "", TRUE, "full", 120),
     Resp(404, "application/json", TRUE, "full", 120),
     Resp(200, JsonType, FALSE, "none", 40),
     Resp(500, JsonType, TRUE, "full", 120)}
        \cup {Resp(200, JsonType, TRUE, sh, 120) : sh \in Shapes}

ActivityResponses ==
    {NetworkFailure, Resp(500, HtmlType, FALSE, "none", 350)}
        \cup {Resp(200, JsonType, TRUE, sh, 120) : sh \in {"some", "none", "absent", "null"}}

\* a pending fetch and what became of it
Pending(kind, params) ==
    [kind |-> kind, params |-> params, stage |-> "pending", shape |-> "none",
     errStatus |-> 0, errExcerpt |-> 0, caught |-> FALSE]

Min(a, b) == IF a < b THEN a ELSE b

\* the rejection fetchJSON makes of a response it refuses: status and body excerpt
Refuse(req, resp) ==
    [req EXCEPT !.stage = "rejected", !.errStatus = resp.status,
                !.errExcerpt = Min(resp.len, ExcerptLen)]

Reject(req) == [req EXCEPT !.stage = "rejected"]
Fulfil(req, resp) == [req EXCEPT !.stage = "fulfilled", !.shape = resp.shape]

\* fetchJSON(url), up to the promise it returns being settled
fetchJSON(req, resp) ==
    IF ~resp.net THEN Reject(req)
    ELSE IF ~Ok(resp) \/ ~IncludesJson(resp.ctype) THEN Refuse(req, resp)
    ELSE IF ~resp.json THEN Reject(req)
    ELSE Fulfil(req, resp)

fetchBookStatsChecked(req, resp) == fetchJSON(req, resp)

\* fetch(...).then(r => r.json()) in loadBookStats: neither status nor type is looked at
fetchBookStats(req, resp) ==
    IF ~resp.net \/ ~resp.json THEN Reject(req) ELSE Fulfil(req, resp)

\* --------------------------------------------------------------- the query
QueryParamsAlwaysMonth(period, y, m) ==
    <<[k |-> "period", v |-> period], [k |-> "year", v |-> y], [k |-> "month", v |-> m]>>

\* new URLSearchParams({period, year}) and the conditional params.set('month', m)
QueryParams(period, y, m) ==
    LET base == <<[k |-> "period", v |-> period], [k |-> "year", v |-> y]>>
    IN IF period # "year" THEN Append(base, [k |-> "month", v |-> m]) ELSE base

HasParam(params, k) == \E i \in 1..Len(params) : params[i].k = k
ParamOf(params, k) == params[CHOOSE i \in 1..Len(params) : params[i].k = k].v

\* control values are strings, as element.value is
YearValues == {"2025", "2026"}
MonthValues == {"3", "11"}
Periods == {"year", "month"}
Now == [year |-> "2026", month |-> "11"]

\* the server side: a number standing for the statistics of one query
YearCode(v) == IF v = "2025" THEN 5 ELSE IF v = "2026" THEN 6 ELSE 0
MonthCode(v) == IF v = "3" THEN 3 ELSE IF v = "11" THEN 11 ELSE IF v = "1" THEN 1 ELSE 0
QCode(params) ==
    IF ~HasParam(params, "year") THEN 0
    ELSE YearCode(ParamOf(params, "year")) * 100
            + (IF HasParam(params, "month") THEN MonthCode(ParamOf(params, "month")) ELSE 0)

\* ----------------------------------------------------------------- counters
RECURSIVE Groups(_)
\* Number.prototype.toLocaleString: the digits in groups of three
Groups(n) == IF n < 1000 THEN <<n>> ELSE Append(Groups(n \div 1000), n % 1000)

Shown(n) == [kind |-> "number", groups |-> Groups(n)]
Dash == [kind |-> "text", groups |-> <<>>]
Blank == [kind |-> "initial", groups |-> <<>>]

\* updateElement(id, value): a no-op when the element is absent
updateElement(cs, id, value) == IF id \in dom THEN [cs EXCEPT ![id] = value] ELSE cs

\* the success handler of loadDashboardStats: stops at the first property read that throws
StatsThen(cs, data) ==
    IF data.isNull \/ ~data.basic THEN [cs |-> cs, threw |-> TRUE]
    ELSE LET c1 == updateElement(cs, "books-count", Shown(data.total_books))
             c2 == updateElement(c1, "users-count", Shown(data.total_users))
         IN IF ~data.requests THEN [cs |-> c2, threw |-> TRUE]
            ELSE LET c3 == updateElement(c2, "pending-requests", Shown(data.pending))
                 IN IF ~data.loans THEN [cs |-> c3, threw |-> TRUE]
                    ELSE [cs |-> updateElement(c3, "overdue-loans", Shown(data.overdue)),
                          threw |-> FALSE]

RECURSIVE DashAll(_, _)
DashAll(cs, i) ==
    IF i > Len(CounterIds) THEN cs ELSE DashAll(updateElement(cs, CounterIds[i], Dash), i + 1)

StatsCatchUnwritten(cs) ==
    [id \in CounterSet |-> IF id \in dom /\ cs[id] = Blank THEN Dash ELSE cs[id]]

\* the catch handler of loadDashboardStats
StatsCatch(cs) == DashAll(cs, 1)

\* ----------------------------------------------------------------- activity
\* escapeHtml: the text is set as textContent and read back as innerHTML, which
\* serialises a text node with & < > replaced and every other character as it is
EscapeCharNoAmp(ch) ==
    CASE ch = "<" -> "&lt;"
      [] ch = ">" -> "&gt;"
      [] OTHER -> ch

EscapeChar(ch) ==
    CASE ch = "&" -> "&amp;"
      [] ch = "<" -> "&lt;"
      [] ch = ">" -> "&gt;"
      [] OTHER -> ch

escapeHtml(text) == [i \in 1..Len(text) |-> EscapeChar(text[i])]

SampleActivities ==
    <<[message |-> <<"a", "<", "&">>, details |-> <<"\"", ">">>, ago |-> <<"5", "m">>]>>

\* texts the server may send in an activity: a letter and the characters HTML
\* gives a meaning to
Alphabet == {"a", "<", ">", "&", "\""}
Texts == UNION {[1..n -> Alphabet] : n \in 0..MaxText}

Reverse(t) == [i \in 1..Len(t) |-> t[Len(t) + 1 - i]]

RECURSIVE TextName(_)
\* a body that holds two activities made of the text t, named after t
TextName(t) == IF t = <<>> THEN "text:" ELSE TextName(SubSeq(t, 1, Len(t) - 1)) \o t[Len(t)]
TextShapes == {TextName(t) : t \in Texts}
TextOf(sh) == CHOOSE t \in Texts : TextName(t) = sh

TextActivities(t) ==
    <<[message |-> t, details |-> Reverse(t), ago |-> t],
      [message |-> Reverse(t), details |-> t, ago |-> <<"a">>]>>

ActivityPayload(sh) ==
    [isNull |-> sh = "null", hasList |-> sh \in {"some", "none"} \cup TextShapes,
     activities |-> IF sh = "some" THEN SampleActivities
                    ELSE IF sh \in TextShapes THEN TextActivities(TextOf(sh)) ELSE <<>>]

Item(a) == [message |-> escapeHtml(a.message), details |-> escapeHtml(a.details),
            ago |-> escapeHtml(a.ago)]

\* the success handler of loadRecentActivity
ActivityThen(list, data) ==
    IF "recent-activity-list" \notin dom THEN [list |-> list, threw |-> FALSE]
    ELSE IF data.isNull THEN [list |-> list, threw |-> TRUE]
    ELSE IF data.hasList /\ Len(data.activities) > 0
         THEN [list |-> [kind |-> "items",
                         items |-> [i \in 1..Len(data.activities) |-> Item(data.activities[i])]],
               threw |-> FALSE]
         ELSE [list |-> [kind |-> "No recent activity", items |-> <<>>], threw |-> FALSE]

\* the catch handler of loadRecentActivity
ActivityCatch(list) ==
    IF "recent-activity-list" \in dom
    THEN [kind |-> "Error loading recent activity", items |-> <<>>]
    ELSE list

\* ----------------------------------------------------------------- controls
loadBookStatsOnce(ls, ctl) ==
    LET q == QueryParams(ctl.period, ctl.year, IF "stats-month" \in dom THEN ctl.month ELSE "1")
    IN IF "stats-period" \notin dom \/ "stats-year" \notin dom THEN ls
       ELSE IF \E i \in 1..Len(ls) : ls[i].stage = "pending" /\ ls[i].params = q THEN ls
       ELSE Append(ls, Pending("charts", q))

\* loadBookStats(): reads the controls, builds the query, issues the fetch
loadBookStats(ls, ctl) ==
    IF "stats-period" \notin dom \/ "stats-year" \notin dom THEN ls
    ELSE Append(ls, Pending("charts",
                            QueryParams(ctl.period, ctl.year,
                                        IF "stats-month" \in dom THEN ctl.month ELSE "1")))

RECURSIVE LoadTimes(_, _, _)
\* an event dispatched to n listeners that each call loadBookStats
LoadTimes(ls, ctl, n) == IF n = 0 THEN ls ELSE LoadTimes(loadBookStats(ls, ctl), ctl, n - 1)

\* toggleMonthVisibility()
toggleMonthVisibility(ctl, md) ==
    LET d == IF ctl.period = "year" THEN "none" ELSE "inline-block"
    IN [month |-> d, label |-> IF "label-month" \in dom THEN d ELSE md.label]

NoListeners == [periodChange |-> 0, yearChange |-> 0, yearInput |-> 0,
                monthChange |-> 0, monthInput |-> 0]

setupStatsControlsLenient(st) ==
    IF "stats-period" \notin dom \/ "stats-year" \notin dom THEN st
    ELSE LET ctl == [st.controls EXCEPT !.year = Now.year, !.month = Now.month]
         IN [controls |-> ctl,
             ctlListeners |-> [periodChange |-> st.ctlListeners.periodChange + 1,
                               yearChange |-> st.ctlListeners.yearChange + 1,
                               yearInput |-> st.ctlListeners.yearInput + 1,
                               monthChange |-> st.ctlListeners.monthChange + 1,
                               monthInput |-> st.ctlListeners.monthInput + 1],
             monthDisplay |-> toggleMonthVisibility(ctl, st.monthDisplay)]

\* setupStatsControls()
setupStatsControls(st) ==
    IF "stats-period" \notin dom \/ "stats-year" \notin dom \/ "stats-month" \notin dom THEN st
    ELSE LET ctl == [st.controls EXCEPT !.year = Now.year, !.month = Now.month]
         IN [controls |-> ctl,
             ctlListeners |-> [periodChange |-> st.ctlListeners.periodChange + 1,
                               yearChange |-> st.ctlListeners.yearChange + 1,
                               yearInput |-> st.ctlListeners.yearInput + 1,
                               monthChange |-> st.ctlListeners.monthChange + 1,
                               monthInput |-> st.ctlListeners.monthInput + 1],
             monthDisplay |-> toggleMonthVisibility(ctl, st.monthDisplay)]

\* ------------------------------------------------------------ initial state
\* the value the page's markup gives the year field: none, or a year
MarkupYears == {"", "2025"}

\* the pages the script is modelled on: every element present; the month control
\* and its label absent; the year control absent; the period control absent; one
\* canvas, one counter and the activity list absent
DomConfigs ==
    {[els |-> AllElements, zoom |-> TRUE],
     [els |-> AllElements \ {"stats-month", "label-month"}, zoom |-> TRUE],
     [els |-> AllElements \ {"stats-year"}, zoom |-> TRUE],
     [els |-> AllElements \ {"stats-period"}, zoom |-> TRUE],
     [els |-> AllElements \ {"languageChart", "overdue-loans", "recent-activity-list"},
      zoom |-> FALSE]}

Idle(kind) == [Pending(kind, <<>>) EXCEPT !.stage = "idle"]

chartVars ==
    <<slotChart, canvasListeners, insts, dataObjs, arrays, optObjs, modalEl, bodyModals,
      modalDisplay, modalTitle, modalChartInstance, modalRegs, peakModal>>
envVars == <<dom, zoomPlugin>>
ctlVars == <<controls, ctlListeners, monthDisplay>>
vars ==
    <<pc, dom, zoomPlugin, zoomRegistered, slotChart, canvasListeners, insts, dataObjs, arrays,
      optObjs, modalEl, bodyModals, modalDisplay, modalTitle, modalChartInstance, modalRegs,
      peakModal, lastClick, touched, clicks, controls, ctlListeners, monthDisplay,
      counters, activityList, summary, activity, loads, settled, errors>>

Init ==
    /\ pc = "loaded"
    /\ \E cfg \in DomConfigs : dom = cfg.els /\ zoomPlugin = cfg.zoom
    /\ zoomRegistered = FALSE
    /\ slotChart = [s \in SlotSet |-> Undef]
    /\ canvasListeners = [s \in SlotSet |-> 0]
    /\ insts = <<>>
    /\ dataObjs = <<>>
    /\ arrays = <<>>
    /\ optObjs = <<>>
    /\ modalEl = Undef
    /\ bodyModals = 0
    /\ modalDisplay = ""
    /\ modalTitle = ""
    /\ modalChartInstance = Undef
    /\ modalRegs = [close |-> 0, backdrop |-> 0, reset |-> 0]
    /\ peakModal = 0
    /\ lastClick = [slot |-> "none", source |-> Undef, opens |-> 0, wasOpen |-> FALSE]
    /\ touched = {}
    /\ clicks = 0
    /\ \E p \in Periods, y \in MarkupYears :
           controls = [period |-> p, year |-> y, month |-> ""]
    /\ ctlListeners = NoListeners
    /\ monthDisplay = [month |-> "", label |-> ""]
    /\ counters = [id \in CounterSet |-> Blank]
    /\ activityList = [kind |-> "initial", items |-> <<>>]
    /\ summary = Idle("summary")
    /\ activity = Idle("activity")
    /\ loads = <<>>
    /\ settled = <<>>
    /\ errors = [stats |-> 0, activity |-> 0, bookStats |-> 0]

SetWorld(w) ==
    /\ slotChart' = w.slotChart
    /\ canvasListeners' = w.canvasListeners
    /\ insts' = w.insts
    /\ dataObjs' = w.dataObjs
    /\ arrays' = w.arrays
    /\ optObjs' = w.optObjs
    /\ modalEl' = w.modalEl
    /\ bodyModals' = w.bodyModals
    /\ modalDisplay' = w.modalDisplay
    /\ modalTitle' = w.modalTitle
    /\ modalChartInstance' = w.modalChartInstance
    /\ modalRegs' = w.modalRegs
    /\ peakModal' = w.peakModal

\* ------------------------------------------------------------------ actions
\* init(statsUrl, activityUrl)
AdminDashboardInit ==
    /\ pc = "loaded"
    /\ pc' = "ready"
    /\ zoomRegistered' = zoomPlugin
    /\ summary' = Pending("summary", <<>>)
    /\ activity' = Pending("activity", <<>>)
    /\ LET st == setupStatsControls([controls |-> controls, ctlListeners |-> ctlListeners,
                                     monthDisplay |-> monthDisplay])
       IN /\ controls' = st.controls
          /\ ctlListeners' = st.ctlListeners
          /\ monthDisplay' = st.monthDisplay
          /\ loads' = loadBookStats(loads, st.controls)
    /\ UNCHANGED <<envVars, chartVars, lastClick, touched, clicks, counters,
                   activityList, settled, errors>>

\* the summary fetch settles
SummaryRespond(r) ==
    /\ summary.stage = "pending"
    /\ summary' = fetchJSON(summary, r)
    /\ UNCHANGED <<pc, envVars, zoomRegistered, chartVars, lastClick, touched, clicks,
                   ctlVars, counters, activityList, activity, loads, settled, errors>>

\* loadDashboardStats: .then(data => ...)
SummaryThen ==
    /\ summary.stage = "fulfilled"
    /\ LET res == StatsThen(counters, Payload(summary.shape, QCode(summary.params)))
       IN /\ counters' = res.cs
          /\ summary' = [summary EXCEPT !.stage = IF res.threw THEN "rejected" ELSE "done"]
    /\ UNCHANGED <<pc, envVars, zoomRegistered, chartVars, lastClick, touched, clicks,
                   ctlVars, activityList, activity, loads, settled, errors>>

\* loadDashboardStats: .catch(error => ...)
SummaryCatch ==
    /\ summary.stage = "rejected"
    /\ errors' = [errors EXCEPT !.stats = @ + 1]
    /\ counters' = StatsCatch(counters)
    /\ summary' = [summary EXCEPT !.stage = "done", !.caught = TRUE]
    /\ UNCHANGED <<pc, envVars, zoomRegistered, chartVars, lastClick, touched, clicks,
                   ctlVars, activityList, activity, loads, settled>>

\* the activity fetch settles
ActivityRespond(r) ==
    /\ activity.stage = "pending"
    /\ activity' = fetchJSON(activity, r)
    /\ UNCHANGED <<pc, envVars, zoomRegistered, chartVars, lastClick, touched, clicks,
                   ctlVars, counters, activityList, summary, loads, settled, errors>>

\* loadRecentActivity: .then(data => ...)
RecentActivityThen ==
    /\ activity.stage = "fulfilled"
    /\ LET res == ActivityThen(activityList, ActivityPayload(activity.shape))
       IN /\ activityList' = res.list
          /\ activity' = [activity EXCEPT !.stage = IF res.threw THEN "rejected" ELSE "done"]
    /\ UNCHANGED <<pc, envVars, zoomRegistered, chartVars, lastClick, touched, clicks,
                   ctlVars, counters, summary, loads, settled, errors>>

RecentActivityCatchAll ==
    /\ activity.stage = "rejected"
    /\ errors' = [errors EXCEPT !.activity = @ + 1]
    /\ activityList' = ActivityCatch(activityList)
    /\ counters' = StatsCatch(counters)
    /\ activity' = [activity EXCEPT !.stage = "done", !.caught = TRUE]
    /\ UNCHANGED <<pc, envVars, zoomRegistered, chartVars, lastClick, touched, clicks,
                   ctlVars, summary, loads, settled>>

\* loadRecentActivity: .catch(error => ...)
RecentActivityCatch ==
    /\ activity.stage = "rejected"
    /\ errors' = [errors EXCEPT !.activity = @ + 1]
    /\ activityList' = ActivityCatch(activityList)
    /\ activity' = [activity EXCEPT !.stage = "done", !.caught = TRUE]
    /\ UNCHANGED <<pc, envVars, zoomRegistered, chartVars, lastClick, touched, clicks,
                   ctlVars, counters, summary, loads, settled>>

\* a chart-statistics fetch settles and r.json() reads its body
LoadRespond(i, r) ==
    /\ loads[i].stage = "pending"
    /\ loads' = [loads EXCEPT ![i] = fetchBookStats(@, r)]
    /\ UNCHANGED <<pc, envVars, zoomRegistered, chartVars, lastClick, touched, clicks,
                   ctlVars, counters, activityList, summary, activity, settled, errors>>

LoadThenLatestOnly(i) ==
    /\ loads[i].stage = "fulfilled"
    /\ LET w == IF i = Len(loads)
                THEN renderCharts(World, Payload(loads[i].shape, QCode(loads[i].params)))
                ELSE World
       IN /\ SetWorld(w)
          /\ loads' = [loads EXCEPT ![i].stage = IF w.threw THEN "rejected" ELSE "done"]
          /\ settled' = Append(settled, i)
    /\ UNCHANGED <<pc, envVars, zoomRegistered, lastClick, touched, clicks, ctlVars,
                   counters, activityList, summary, activity, errors>>

\* loadBookStats: .then(renderCharts)
LoadThen(i) ==
    /\ loads[i].stage = "fulfilled"
    /\ LET w == renderCharts(World, Payload(loads[i].shape, QCode(loads[i].params)))
       IN /\ SetWorld(w)
          /\ loads' = [loads EXCEPT ![i].stage = IF w.threw THEN "rejected" ELSE "done"]
          /\ settled' = Append(settled, i)
    /\ UNCHANGED <<pc, envVars, zoomRegistered, lastClick, touched, clicks, ctlVars,
                   counters, activityList, summary, activity, errors>>

\* loadBookStats: .catch(err => console.error(...))
LoadCatch(i) ==
    /\ loads[i].stage = "rejected"
    /\ errors' = [errors EXCEPT !.bookStats = @ + 1]
    /\ loads' = [loads EXCEPT ![i].stage = "done", ![i].caught = TRUE]
    /\ settled' = IF \E k \in 1..Len(settled) : settled[k] = i THEN settled
                  ELSE Append(settled, i)
    /\ UNCHANGED <<pc, envVars, zoomRegistered, chartVars, lastClick, touched, clicks,
                   ctlVars, counters, activityList, summary, activity>>

\* 'change' on the period control
PeriodChange(p) ==
    /\ pc = "ready"
    /\ "stats-period" \in dom
    /\ Len(loads) + ctlListeners.periodChange <= MaxLoads
    /\ LET ctl == [controls EXCEPT !.period = p]
       IN /\ controls' = ctl
          /\ monthDisplay' = IF ctlListeners.periodChange > 0
                             THEN toggleMonthVisibility(ctl, monthDisplay) ELSE monthDisplay
          /\ loads' = LoadTimes(loads, ctl, ctlListeners.periodChange)
    /\ UNCHANGED <<pc, envVars, zoomRegistered, chartVars, lastClick, touched, clicks,
                   ctlListeners, counters, activityList, summary, activity, settled, errors>>

\* 'input' on the period control: no listener is registered for it
PeriodInput(p) ==
    /\ pc = "ready"
    /\ "stats-period" \in dom
    /\ controls' = [controls EXCEPT !.period = p]
    /\ UNCHANGED <<pc, envVars, zoomRegistered, chartVars, lastClick, touched, clicks,
                   ctlListeners, monthDisplay, counters, activityList, summary, activity,
                   loads, settled, errors>>

ListenersFor(el, ev) ==
    CASE el = "year" /\ ev = "change" -> ctlListeners.yearChange
      [] el = "year" /\ ev = "input" -> ctlListeners.yearInput
      [] el = "month" /\ ev = "change" -> ctlListeners.monthChange
      [] el = "month" /\ ev = "input" -> ctlListeners.monthInput

\* 'change' or 'input' on the year control, its value being y
YearEvent(ev, y) ==
    /\ pc = "ready"
    /\ "stats-year" \in dom
    /\ Len(loads) + ListenersFor("year", ev) <= MaxLoads
    /\ LET ctl == [controls EXCEPT !.year = y]
       IN /\ controls' = ctl
          /\ loads' = LoadTimes(loads, ctl, ListenersFor("year", ev))
    /\ UNCHANGED <<pc, envVars, zoomRegistered, chartVars, lastClick, touched, clicks,
                   ctlListeners, monthDisplay, counters, activityList, summary, activity,
                   settled, errors>>

\* 'change' or 'input' on the month control, its value being m
MonthEvent(ev, m) ==
    /\ pc = "ready"
    /\ "stats-month" \in dom
    /\ Len(loads) + ListenersFor("month", ev) <= MaxLoads
    /\ LET ctl == [controls EXCEPT !.month = m]
       IN /\ controls' = ctl
          /\ loads' = LoadTimes(loads, ctl, ListenersFor("month", ev))
    /\ UNCHANGED <<pc, envVars, zoomRegistered, chartVars, lastClick, touched, clicks,
                   ctlListeners, monthDisplay, counters, activityList, summary, activity,
                   settled, errors>>

\* ------------------------------------------------------- clicks and the modal
\* the first chart ever constructed on the slot's canvas
FirstOn(w, s) == CHOOSE i \in 1..Len(w.insts) : w.insts[i].canvas = s /\ \A j \in 1..(i - 1) : w.insts[j].canvas # s

ClickListenerStale(w, s) == openModalForChart(w, FirstOn(w, s), SlotTitle(s))

\* one click listener of a slot canvas: it reads the slot variable when it runs
ClickListener(w, s) == openModalForChart(w, w.slotChart[s], SlotTitle(s))

RECURSIVE Dispatch(_, _, _)
\* a click event on the canvas runs every listener bound to it, in turn
Dispatch(w, s, n) == IF n = 0 THEN w ELSE Dispatch(ClickListener(w, s), s, n - 1)

\* a click on a slot's canvas
ClickCanvas(s) ==
    /\ pc = "ready"
    /\ CanvasId(s) \in dom
    /\ canvasListeners[s] > 0
    /\ clicks < MaxClicks
    /\ clicks' = clicks + 1
    /\ lastClick' = [slot |-> s, source |-> slotChart[s], opens |-> canvasListeners[s],
                     wasOpen |-> modalChartInstance # Undef]
    /\ SetWorld(Dispatch(World, s, canvasListeners[s]))
    /\ UNCHANGED <<pc, envVars, zoomRegistered, touched, ctlVars, counters,
                   activityList, summary, activity, loads, settled, errors>>

\* a click on the close button: its listener, then the overlay's, whose target test fails
CloseButtonClick ==
    /\ modalEl # Undef
    /\ SetWorld(closeModal(World))
    /\ UNCHANGED <<pc, envVars, zoomRegistered, lastClick, touched, clicks, ctlVars, counters,
                   activityList, summary, activity, loads, settled, errors>>

\* a click inside the overlay: on the backdrop itself, or on the dialog within it
OverlayClick(target) ==
    /\ modalEl # Undef
    /\ SetWorld(IF target = "overlay" THEN closeModal(World) ELSE World)
    /\ UNCHANGED <<pc, envVars, zoomRegistered, lastClick, touched, clicks, ctlVars, counters,
                   activityList, summary, activity, loads, settled, errors>>

\* a write into the objects a live chart's config reaches: its dataset's values
\* ("data") or its options ("options"), as zooming and panning do
Mutate(id, part) ==
    /\ id \in 1..Len(insts)
    /\ insts[id].live
    /\ id \notin touched
    /\ Cardinality(touched) < MaxWrites
    /\ touched' = touched \cup {id}
    /\ IF part = "data"
       THEN /\ dataObjs[insts[id].data].data # Undef
            /\ arrays' = [arrays EXCEPT ![dataObjs[insts[id].data].data] =
                              IF Len(@) = 0 THEN <<-1>> ELSE [@ EXCEPT ![1] = -1]]
            /\ UNCHANGED optObjs
       ELSE /\ optObjs' = [optObjs EXCEPT ![insts[id].options].zoomLevel = 1]
            /\ UNCHANGED arrays
    /\ UNCHANGED <<pc, envVars, zoomRegistered, slotChart, canvasListeners, insts, dataObjs,
                   modalEl, bodyModals, modalDisplay, modalTitle, modalChartInstance,
                   modalRegs, peakModal, lastClick, clicks, ctlVars, counters,
                   activityList, summary, activity, loads, settled, errors>>

\* a click on the reset-zoom button
ResetZoomClick ==
    /\ modalEl # Undef
    /\ modalChartInstance # Undef
    /\ zoomRegistered
    /\ optObjs[insts[modalChartInstance].options].zoomLevel # 0
    /\ optObjs' = [optObjs EXCEPT ![insts[modalChartInstance].options].zoomLevel = 0]
    /\ touched' = touched \cup {modalChartInstance}
    /\ UNCHANGED <<pc, envVars, zoomRegistered, slotChart, canvasListeners, insts, dataObjs,
                   arrays, modalEl, bodyModals, modalDisplay, modalTitle, modalChartInstance,
                   modalRegs, peakModal, lastClick, clicks, ctlVars, counters,
                   activityList, summary, activity, loads, settled, errors>>

\* the charts a write is modelled on: the modal's chart and the chart it was opened from
Mutable == {modalChartInstance, lastClick.source} \ {Undef}

\* responses whose handling differs for a chart-statistics load
LoadResponses ==
    {NetworkFailure, Resp(200, JsonType, TRUE, "full", 120),
     Resp(200, JsonType, TRUE, "empty", 120),
     Resp(200, JsonType, TRUE, "badStatus", 120)}

\* The chart lifecycle: the page is initialised, the controls reload the charts,
\* the responses arrive in any order and are rendered or fail.  The summary and
\* activity fetches stay pending here: their continuations write the counters and
\* the activity list only (SpecLoads), and no chart is clicked (SpecModal).
Next ==
    \/ AdminDashboardInit
    \/ \E p \in Periods : PeriodChange(p)
    \/ \E ev \in {"change", "input"}, y \in YearValues : YearEvent(ev, y)
    \/ \E ev \in {"change", "input"}, m \in MonthValues : MonthEvent(ev, m)
    \/ \E i \in 1..Len(loads), r \in LoadResponses : LoadRespond(i, r)
    \/ \E i \in 1..Len(loads) : LoadThen(i)
    \/ \E i \in 1..Len(loads) : LoadCatch(i)

Spec == Init /\ [][Next]_vars

\* The modal: on the page that has every element and starts on the 'year' period,
\* with well-formed responses, the
\* charts are re-rendered and clicked and the modal is closed.
InitAll == Init /\ dom = AllElements /\ controls.period = "year"

WellFormed == Resp(200, JsonType, TRUE, "full", 120)

NextModal ==
    \/ AdminDashboardInit
    \/ \E y \in YearValues : YearEvent("change", y)
    \/ \E i \in 1..Len(loads) : LoadRespond(i, WellFormed)
    \/ \E i \in 1..Len(loads) : LoadThen(i)
    \/ \E s \in SlotSet : ClickCanvas(s)
    \/ CloseButtonClick
    \/ \E t \in {"overlay", "dialog"} : OverlayClick(t)

SpecModal == InitAll /\ [][NextModal]_vars

\* Writes after the modal is opened: the charts of the initial load are clicked,
\* the modal chart or the chart it was opened from is written to, the zoom is
\* reset, the modal is closed.
NextClone ==
    \/ AdminDashboardInit
    \/ Len(loads) >= 1 /\ LoadRespond(1, WellFormed)
    \/ Len(loads) >= 1 /\ LoadThen(1)
    \/ \E s \in SlotSet : ClickCanvas(s)
    \/ \E id \in Mutable, part \in {"data", "options"} : Mutate(id, part)
    \/ ResetZoomClick
    \/ CloseButtonClick

SpecClone == InitAll /\ [][NextClone]_vars

\* The summary and the activity loads, next to the initial chart-statistics load
NextLoads ==
    \/ AdminDashboardInit
    \/ \E r \in StatsResponses : SummaryRespond(r)
    \/ SummaryThen
    \/ SummaryCatch
    \/ \E r \in ActivityResponses : ActivityRespond(r)
    \/ RecentActivityThen
    \/ RecentActivityCatch
    \/ \E r \in LoadResponses : Len(loads) >= 1 /\ LoadRespond(1, r)
    \/ Len(loads) >= 1 /\ LoadThen(1)
    \/ Len(loads) >= 1 /\ LoadCatch(1)

SpecLoads == Init /\ [][NextLoads]_vars

\* The controls: every event the three controls can raise, the requests being
\* answered in any order
NextControls ==
    \/ AdminDashboardInit
    \/ \E p \in Periods : PeriodChange(p)
    \/ \E p \in Periods : PeriodInput(p)
    \/ \E ev \in {"change", "input"}, y \in YearValues : YearEvent(ev, y)
    \/ \E ev \in {"change", "input"}, m \in MonthValues : MonthEvent(ev, m)
    \/ \E i \in 1..Len(loads) : LoadRespond(i, WellFormed)

SpecControls == Init /\ [][NextControls]_vars

\* The three loads side by side: the summary and the activity continuations in
\* either order, between renders and failures of the initial chart load and of a
\* reload
SummaryOutcomes ==
    {NetworkFailure, Resp(500, JsonType, TRUE, "full", 120)}
        \cup {Resp(200, JsonType, TRUE, sh, 120) : sh \in {"full", "noLoans", "null"}}

NextInterleave ==
    \/ AdminDashboardInit
    \/ \E r \in SummaryOutcomes : SummaryRespond(r)
    \/ SummaryThen
    \/ SummaryCatch
    \/ \E r \in ActivityResponses : ActivityRespond(r)
    \/ RecentActivityThen
    \/ RecentActivityCatch
    \/ YearEvent("change", "2025")
    \/ \E i \in 1..Len(loads), r \in {NetworkFailure, WellFormed} : LoadRespond(i, r)
    \/ \E i \in 1..Len(loads) : LoadThen(i)
    \/ \E i \in 1..Len(loads) : LoadCatch(i)

SpecInterleave == Init /\ [][NextInterleave]_vars

\* Responses that are no success: the statistics endpoint answers the summary load
\* and every reload of the charts with a non-success status or not at all, the
\* initial chart load having been answered well
ErrorResponses ==
    {NetworkFailure, Resp(500, HtmlType, FALSE, "none", 350),
     Resp(500, JsonType, FALSE, "none", 40), Resp(404, "", TRUE, "full", 120)}
        \cup {Resp(500, JsonType, TRUE, sh, 120) :
                  sh \in {"full", "empty", "null", "badCategory", "badStatus", "badLanguage"}}

NextStatus ==
    \/ AdminDashboardInit
    \/ \E r \in ErrorResponses : SummaryRespond(r)
    \/ SummaryCatch
    \/ \E y \in YearValues : YearEvent("change", y)
    \/ Len(loads) >= 1 /\ LoadRespond(1, WellFormed)
    \/ \E i \in 2..Len(loads), r \in ErrorResponses : LoadRespond(i, r)
    \/ \E i \in 1..Len(loads) : LoadThen(i)
    \/ \E i \in 1..Len(loads) : LoadCatch(i)

SpecStatus == InitAll /\ [][NextStatus]_vars

\* The activity list: the activity load answered with every text of Texts
ActivityTextResponses ==
    ActivityResponses \cup {Resp(200, JsonType, TRUE, sh, 120) : sh \in TextShapes}

NextActivity ==
    \/ AdminDashboardInit
    \/ \E r \in ActivityTextResponses : ActivityRespond(r)
    \/ RecentActivityThen
    \/ RecentActivityCatch

SpecActivity == Init /\ [][NextActivity]_vars

\* Rendering: the initial chart-statistics load answered with bodies whose
\* datasets are long, exactly at the limit, short, empty, missing or mistyped
RenderResponses ==
    {Resp(200, JsonType, TRUE, sh, 120) : sh \in PartialShapes \cup {"long", "edge", "badStatus"}}

NextRender ==
    \/ AdminDashboardInit
    \/ \E r \in RenderResponses : Len(loads) >= 1 /\ LoadRespond(1, r)
    \/ Len(loads) >= 1 /\ LoadThen(1)
    \/ Len(loads) >= 1 /\ LoadCatch(1)

SpecRender == Init /\ [][NextRender]_vars

\* ------------------------------------------------------------------ claims
InstsOn(canvas) == {i \in 1..Len(insts) : insts[i].canvas = canvas}
LiveInsts(canvas) == {i \in InstsOn(canvas) : insts[i].live}
Latest(S) == CHOOSE i \in S : \A j \in S : j <= i

\* renderCharts calls that ran to their end
Returned == {i \in 1..Len(loads) : loads[i].stage = "done" /\ ~loads[i].caught}

\* C1: for every slot whose canvas exists, once a chart has been constructed for it
\* the only live chart on its canvas is the one the slot variable references, which
\* is the last one constructed, every earlier one being destroyed; and once a
\* renderCharts call has returned, every such slot has a chart.
C1_OneLiveChartPerSlot ==
    \A s \in SlotSet :
        CanvasId(s) \in dom =>
            /\ InstsOn(s) # {} => /\ LiveInsts(s) = {slotChart[s]}
                                  /\ slotChart[s] = Latest(InstsOn(s))
            /\ Returned # {} => Cardinality(LiveInsts(s)) = 1

\* a slot rendered twice: its first chart destroyed, its second live
C1_Witness ==
    \E s \in SlotSet :
        /\ CanvasId(s) \in dom
        /\ Cardinality(InstsOn(s)) >= 2
        /\ LiveInsts(s) = {slotChart[s]}
        /\ Cardinality(Returned) >= 2

\* C2: each slot canvas has exactly one click listener however often the slot was
\* rendered, so a click on it calls openModalForChart exactly once.
C2_OneClickListener ==
    /\ \A s \in SlotSet : InstsOn(s) # {} => canvasListeners[s] = 1
    /\ lastClick.slot # "none" => lastClick.opens = 1

\* C3: at most one modal chart is live, it is the one modalChartInstance references,
\* and no construction of a modal chart ever left two of them live, an open that
\* follows an open included.
C3_AtMostOneModalChart ==
    /\ Cardinality(LiveInsts("modal")) <= 1
    /\ peakModal <= 1
    /\ LiveInsts("modal") = IF modalChartInstance = Undef THEN {} ELSE {modalChartInstance}

\* the modal was open when the last click opened it again
C3_Witness ==
    /\ lastClick.wasOpen
    /\ Cardinality(InstsOn("modal")) >= 2
    /\ LiveInsts("modal") = {modalChartInstance}

\* C4: a chart whose own data and options were never written shows what it showed
\* when it was constructed, whatever was written through another chart: the modal
\* chart and the slot chart it was opened from share no array and no options object.
C4_CloneIsolation ==
    \A i \in 1..Len(insts) : i \notin touched => View(World, i) = insts[i].born

\* the modal chart was written to and differs from what it was; its source does not
C4_Witness ==
    /\ modalChartInstance # Undef
    /\ modalChartInstance \in touched
    /\ View(World, modalChartInstance) # insts[modalChartInstance].born
    /\ lastClick.source \notin touched
    /\ insts[lastClick.source].live
    /\ View(World, lastClick.source) = insts[lastClick.source].born

DataOf(v) == [label |-> v.label, labels |-> v.labels, values |-> v.values, colors |-> v.colors]

\* C5: the modal chart a click opened has the type, the data and (with the modal's
\* additions) the options of the chart the slot referenced at the click, which is
\* the last chart constructed for the slot before the modal chart; the title is the
\* slot's title.
C5_ModalSeededFromCurrent ==
    modalChartInstance # Undef =>
        LET m == insts[modalChartInstance]
            src == insts[lastClick.source]
        IN /\ src.canvas = lastClick.slot
           /\ \A j \in InstsOn(lastClick.slot) : j < modalChartInstance => j <= lastClick.source
           /\ m.type = src.type
           /\ DataOf(m.born) = DataOf(src.born)
           /\ m.born.options = ModalOptions(src.born.options)
           /\ modalTitle = SlotTitle(lastClick.slot)

\* the modal shows the second chart of a slot whose first chart showed other data
C5_Witness ==
    /\ modalChartInstance # Undef
    /\ \E j \in InstsOn(lastClick.slot) :
          /\ j < lastClick.source
          /\ DataOf(insts[j].born) # DataOf(insts[lastClick.source].born)
    /\ DataOf(insts[modalChartInstance].born) = DataOf(insts[lastClick.source].born)

\* C6: once the summary load has failed and its catch handler has run, every counter
\* element of the page shows the dash, and the failure was logged once.
C6_AllOrNothing ==
    (summary.stage = "done" /\ summary.caught) =>
        /\ \A id \in CounterSet \cap dom : counters[id] = Dash
        /\ errors.stats = 1

\* the success handler threw after it had written three counters
C6_Witness ==
    /\ summary.stage = "done"
    /\ summary.caught
    /\ summary.shape = "noLoans"
    /\ CounterSet \subseteq dom
    /\ \A id \in CounterSet : counters[id] = Dash

\* the query code the chart of slot s shows (0 when it shows no value)
ShownCode(s) ==
    LET v == View(World, slotChart[s]).values
    IN IF v.def /\ Len(v.items) > 0 THEN v.items[1] \div 100 ELSE 0

AllShow(c) == \A s \in SlotSet : CanvasId(s) \in dom => slotChart[s] # Undef /\ ShownCode(s) = c

\* C7: when the continuation that ran last rendered its response, the slots show
\* that response's data, whether or not a request issued later was answered before.
C7_LastResponseWins ==
    (settled # <<>> /\ settled[Len(settled)] \in Returned) =>
        LET j == settled[Len(settled)]
        IN AllShow(IF loads[j].shape = "full" THEN QCode(loads[j].params) ELSE 0)

\* both responses rendered, the older request's last: the charts show the older
\* query while the controls show the newer one
C7_Witness ==
    /\ Len(loads) = 2
    /\ settled = <<2, 1>>
    /\ loads[1].shape = "full" /\ loads[2].shape = "full"
    /\ ~loads[1].caught /\ ~loads[2].caught
    /\ loads[2].params = QueryParams(controls.period, controls.year, controls.month)
    /\ QCode(loads[1].params) # QCode(loads[2].params)
    /\ AllShow(QCode(loads[1].params))

\* the query q carries what the controls ctl hold
Carries(q, ctl) ==
    /\ HasParam(q, "period") /\ ParamOf(q, "period") = ctl.period
    /\ HasParam(q, "year") /\ ParamOf(q, "year") = ctl.year
    /\ HasParam(q, "month") <=> ctl.period # "year"
    /\ (HasParam(q, "month") /\ "stats-month" \in dom) => ParamOf(q, "month") = ctl.month

\* C8: every request a step issues carries the period and the year the controls hold
\* when it is issued, and month exactly when that period is not 'year', with the
\* month control's value.
C8_MonthIffNotYear ==
    [][\A i \in 1..Len(loads') : i > Len(loads) => Carries(loads'[i].params, controls')]_vars

\* the period was switched: one request without month, one with the month control's value
C8_Witness ==
    /\ Len(loads) = 2
    /\ "stats-month" \in dom
    /\ ~HasParam(loads[1].params, "month")
    /\ HasParam(loads[2].params, "month")
    /\ ParamOf(loads[2].params, "month") = controls.month

\* C9: the overlay is shown exactly when a live modal chart exists, which is then the
\* one modalChartInstance references; hidden, no modal chart is live and the
\* reference is null; the overlay built first is the one in the document ever after.
C9_VisibleIffLive ==
    /\ modalDisplay = "flex" <=> LiveInsts("modal") # {}
    /\ modalDisplay = "flex" <=> modalChartInstance # Undef
    /\ modalChartInstance # Undef => insts[modalChartInstance].live
    /\ modalEl # Undef => modalEl = 1 /\ bodyModals = 1

\* the modal was closed after an open
C9_Witness ==
    /\ modalDisplay = "none"
    /\ InstsOn("modal") # {}
    /\ LiveInsts("modal") = {}
    /\ modalChartInstance = Undef

\* C10: the overlay is built and appended at the first open and never again, and each
\* of its three handlers is registered once.
C10_EnsureModalOnce ==
    /\ bodyModals <= 1
    /\ clicks = 0 => bodyModals = 0
    /\ InstsOn("modal") # {} => bodyModals = 1
    /\ modalRegs = IF bodyModals = 0 THEN [close |-> 0, backdrop |-> 0, reset |-> 0]
                   ELSE [close |-> 1, backdrop |-> 1, reset |-> 1]

\* the modal was opened again after it had been closed
C10_Witness ==
    /\ Cardinality(InstsOn("modal")) >= 2
    /\ ~lastClick.wasOpen
    /\ lastClick.opens = 1
    /\ modalDisplay = "flex"
    /\ bodyModals = 1

\* the chart of slot s is absent or shows no entry
ShowsNothing(s) == slotChart[s] = Undef \/ ShownCode(s) = 0

\* chart-statistics loads whose failure the catch handler logged
Failed == {i \in 1..Len(loads) : loads[i].caught}

\* C11: every failure of a chart-statistics load is logged once and never retried,
\* and once the load that settled last is a failed one, every slot whose canvas
\* exists shows an empty or absent chart rather than data.
C11_FailureLeavesNoData ==
    /\ errors.bookStats = Cardinality(Failed)
    /\ (settled # <<>> /\ settled[Len(settled)] \in Failed) =>
           \A s \in SlotSet : CanvasId(s) \in dom => ShowsNothing(s)

\* the dataset a slot with an entry limit draws, and that limit
LimitedSlots == {"booksPerCategory", "language"}
SourceOf(data, s) ==
    OrEmpty(IF s = "booksPerCategory" THEN data.category_book_counts
            ELSE data.language_distribution).items
LimitOf(s) == IF s = "booksPerCategory" THEN CatLimit ELSE LangLimit

\* C12: the chart of the category slot is built from the first min(n, 20) entries of
\* its dataset and the chart of the language slot from the first min(n, 12), entry k
\* of the chart being entry k of the dataset: nothing beyond the limit, nothing
\* reordered, nothing dropped below it.
C12_FirstEntriesInOrder ==
    1 \in Returned =>
        \A s \in LimitedSlots : CanvasId(s) \in dom =>
            LET src == SourceOf(Payload(loads[1].shape, QCode(loads[1].params)), s)
                k == IF Len(src) < LimitOf(s) THEN Len(src) ELSE LimitOf(s)
                v == insts[slotChart[s]].born
            IN /\ v.labels.def /\ v.values.def
               /\ Len(v.labels.items) = k /\ Len(v.values.items) = k
               /\ \A j \in 1..k : /\ v.labels.items[j] = src[j].name
                                  /\ v.values.items[j] = src[j].total

\* both datasets were longer than their limits: 20 and 12 entries are shown
C12_Witness ==
    /\ 1 \in Returned
    /\ loads[1].shape = "long"
    /\ \A s \in LimitedSlots :
           /\ CanvasId(s) \in dom
           /\ Len(SourceOf(Payload("long", QCode(loads[1].params)), s)) > LimitOf(s)
           /\ Len(insts[slotChart[s]].born.labels.items) = LimitOf(s)

\* the characters escapeHtml's serialisation replaces
Replaced == {"<", ">", "&"}
ItemFields == {"message", "details", "ago"}

\* every piece of text put into the list
Pieces == {activityList.items[e][f][j] :
               <<e, f, j>> \in {x \in (1..Len(activityList.items)) \X ItemFields \X (1..MaxText + 3) :
                                   x[3] <= Len(activityList.items[x[1]][x[2]])}}

Untouched(id) ==
    /\ insts'[id].live
    /\ insts'[id].type = insts[id].type
    /\ View(World', id) = View(World, id)

\* C14: a step that re-renders a slot while the modal is open leaves the modal chart
\* referenced, live and showing what it showed, and a step that closes the modal
\* leaves every slot referencing the chart it referenced, live and showing what it
\* showed.
C14_LifecyclesIndependent ==
    [][/\ (modalChartInstance # Undef /\ slotChart' # slotChart) =>
              /\ modalChartInstance' = modalChartInstance
              /\ modalDisplay' = modalDisplay
              /\ Untouched(modalChartInstance)
       /\ (modalChartInstance # Undef /\ modalChartInstance' = Undef) =>
              \A s \in SlotSet :
                  /\ slotChart'[s] = slotChart[s]
                  /\ slotChart[s] # Undef => Untouched(slotChart[s])]_vars

\* the modal is open on a chart of a slot that was re-rendered since: the chart it
\* was opened from is destroyed, the modal chart is not, and the slot shows other
\* data than the modal
C14_Witness ==
    /\ modalChartInstance # Undef
    /\ insts[modalChartInstance].live
    /\ ~insts[lastClick.source].live
    /\ slotChart[lastClick.slot] > modalChartInstance
    /\ DataOf(insts[modalChartInstance].born) = DataOf(insts[lastClick.source].born)
    /\ DataOf(View(World, slotChart[lastClick.slot])) # DataOf(View(World, modalChartInstance))

ControlIds == {"stats-period", "stats-year", "stats-month"}

\* the step is an event on a control for which the code registers a listener
ListenedEvent ==
    \/ \E p \in Periods : PeriodChange(p)
    \/ \E ev \in {"change", "input"}, y \in YearValues : YearEvent(ev, y)
    \/ \E ev \in {"change", "input"}, m \in MonthValues : MonthEvent(ev, m)

\* the step issues one request, pending, for what the controls hold after it, and
\* leaves every earlier request as it was
IssuesOne ==
    /\ Len(loads') = Len(loads) + 1
    /\ SubSeq(loads', 1, Len(loads)) = loads
    /\ loads'[Len(loads')].stage = "pending"
    /\ Carries(loads'[Len(loads')].params, controls')

\* C15 as stated: every 'change' and every 'input' event on each of the three
\* controls issues exactly one new request.
C15_EveryEventIssuesOne ==
    [][(ListenedEvent \/ \E p \in Periods : PeriodInput(p)) => IssuesOne]_vars

\* C15, amended: on a page that has the three controls, every 'change' on the period
\* control and every 'change' and 'input' on the year and month controls issues
\* exactly one new request for the control values of that moment, an 'input' on the
\* period control issues none, no earlier request is cancelled or merged with the
\* new one, and a step that issues a request is such an event or the initial load,
\* which issues one.
C15_OnePerListenedEvent ==
    [][ControlIds \subseteq dom =>
           /\ ListenedEvent => IssuesOne
           /\ (\E p \in Periods : PeriodInput(p)) => loads' = loads
           /\ AdminDashboardInit => IssuesOne /\ Len(loads') = 1
           /\ loads' # loads /\ Len(loads') > Len(loads) =>
                  ListenedEvent \/ AdminDashboardInit]_vars

\* the same query was issued twice and both requests are in flight, and the period
\* control has since taken a value that no request carries
C15_Witness ==
    /\ ControlIds \subseteq dom
    /\ Len(loads) = 2
    /\ loads[1].params = loads[2].params
    /\ loads[1].stage = "pending" /\ loads[2].stage = "pending"
    /\ controls.period # ParamOf(loads[2].params, "period")

\* a success status, and a content-type header that contains application/json
SuccessStatus(r) == r.status \div 100 = 2
DeclaresJson(r) == r.ctype \in {"application/json", "application/json; charset=utf-8"}

\* the promise of the summary's fetchJSON is rejected with an error that carries
\* the status of r and the first 200 characters of its body
RefusedWith(r) ==
    /\ summary'.stage = "rejected"
    /\ summary'.errStatus = r.status
    /\ summary'.errExcerpt = (IF r.len < 200 THEN r.len ELSE 200)

\* C16 as stated: fetchJSON resolves with the parsed body exactly when the status is
\* a success status and the content type contains application/json, and rejects
\* with the status and the body's first 200 characters in every other case.
C16_ResolvesIffStatusAndType ==
    [][\A r \in StatsResponses : (SummaryRespond(r) /\ r.net) =>
           /\ summary'.stage = "fulfilled" <=> (SuccessStatus(r) /\ DeclaresJson(r))
           /\ summary'.stage # "fulfilled" => RefusedWith(r)]_vars

\* C16, amended: fetchJSON resolves, with the parsed body, exactly when the status
\* is a success status, the content type contains application/json and the body
\* parses; a response that fails the status or the type check is rejected with
\* the status and at most the first 200 characters of the body; one that passes
\* both and does not parse is rejected with neither.
C16_ResolvesIffChecksAndParse ==
    [][\A r \in StatsResponses : (SummaryRespond(r) /\ r.net) =>
           /\ summary'.stage = "fulfilled" <=> (SuccessStatus(r) /\ DeclaresJson(r) /\ r.json)
           /\ summary'.stage = "fulfilled" => summary'.shape = r.shape
           /\ ~(SuccessStatus(r) /\ DeclaresJson(r)) => RefusedWith(r)
           /\ summary'.errExcerpt <= 200
           /\ (SuccessStatus(r) /\ DeclaresJson(r) /\ ~r.json) =>
                  /\ summary'.stage = "rejected"
                  /\ summary'.errStatus = 0 /\ summary'.errExcerpt = 0]_vars

\* a response of status 200 that did not declare JSON was refused with its status
\* and its whole body of 120 characters, and the failure reached the counters
C16_Witness ==
    /\ summary.stage = "done" /\ summary.caught
    /\ summary.errStatus = 200
    /\ summary.errExcerpt = 120

\* position of a slot's dataset in Kinds
SlotIndex(s) == CHOOSE i \in 1..4 : Slots[i] = s

\* C17: when the body of the initial load has each of the four datasets present,
\* missing or empty, the render does not fail and every slot whose canvas exists gets
\* a live chart: one with no label and no value where the dataset is missing or
\* empty, one with the dataset's entries where it is present.
C17_MissingDatasetRendersEmpty ==
    (Len(loads) >= 1 /\ loads[1].shape \in PartialShapes) =>
        /\ loads[1].stage # "rejected" /\ ~loads[1].caught
        /\ loads[1].stage = "done" =>
               \A s \in SlotSet : CanvasId(s) \in dom =>
                   /\ slotChart[s] # Undef /\ insts[slotChart[s]].live
                   /\ LET v == View(World, slotChart[s])
                          k == Kinds(loads[1].shape)[SlotIndex(s)]
                      IN /\ v.labels = Arr(<<>>) <=> k \in {"missing", "empty"}
                         /\ v.values = Arr(<<>>) <=> k \in {"missing", "empty"}
                         /\ k = "rows" => ShownCode(s) = QCode(loads[1].params)

\* the first and the third dataset are missing, the second is empty, and the language
\* chart still shows its two entries
C17_Witness ==
    /\ Len(loads) >= 1 /\ loads[1].stage = "done"
    /\ Kinds(loads[1].shape) = <<"missing", "empty", "missing", "rows">>
    /\ loads[1].shape \in PartialShapes
    /\ \A s \in SlotSet : CanvasId(s) \in dom /\ slotChart[s] # Undef
    /\ View(World, slotChart["booksPerCategory"]).labels = Arr(<<>>)
    /\ Len(View(World, slotChart["language"]).labels.items) = 2

\* what the counter id shows once the summary load is over, by its outcome alone
FinalCounter(id) ==
    IF id \notin dom THEN Blank
    ELSE IF summary.caught THEN Dash
    ELSE CASE id = "books-count" -> Shown(Payload(summary.shape, 0).total_books)
           [] id = "users-count" -> Shown(Payload(summary.shape, 0).total_users)
           [] id = "pending-requests" -> Shown(Payload(summary.shape, 0).pending)
           [] id = "overdue-loans" -> Shown(Payload(summary.shape, 0).overdue)

\* what the activity list is once the activity load is over, by its outcome alone
FinalListKind ==
    IF "recent-activity-list" \notin dom THEN "initial"
    ELSE IF activity.caught THEN "Error loading recent activity"
    ELSE IF ActivityPayload(activity.shape).activities # <<>> THEN "items"
    ELSE "No recent activity"

\* C18: the counters are written by the summary load's continuations only and the
\* activity list by the activity load's only: until the summary load's handler runs
\* the counters are as the page had them, and once the load is over they are what
\* its outcome alone determines, whatever the activity load and the chart loads have
\* done in the meantime; likewise for the activity list.
C18_DisjointWrites ==
    /\ summary.stage \in {"idle", "pending", "fulfilled"} =>
           \A id \in CounterSet : counters[id] = Blank
    /\ summary.stage = "done" => \A id \in CounterSet : counters[id] = FinalCounter(id)
    /\ activity.stage \in {"idle", "pending", "fulfilled"} => activityList.kind = "initial"
    /\ activity.stage = "done" => activityList.kind = FinalListKind

\* the summary succeeded and the activity load failed, a reload of the charts was
\* rendered: the counters show the numbers and the list shows the error
C18_Witness ==
    /\ summary.stage = "done" /\ ~summary.caught
    /\ activity.stage = "done" /\ activity.caught
    /\ CounterSet \subseteq dom /\ "recent-activity-list" \in dom
    /\ \A id \in CounterSet : counters[id].kind = "number"
    /\ activityList.kind = "Error loading recent activity"
    /\ Len(loads) = 2 /\ loads[2].stage = "done" /\ ~loads[2].caught

\* the page has the period and the year control
HasPeriodAndYear == {"stats-period", "stats-year"} \subseteq dom

\* C19: on a page with the period and year controls and without the month control,
\* init issues the one initial request, with the year the field held before init and
\* with month 1 exactly when the period is not 'year', leaves the fields as they were
\* and registers no listener, and no request is ever issued after it; on a page
\* without the period or without the year control no request is ever issued and no
\* chart is ever constructed.
C19_MonthNeededForWiringOnly ==
    /\ [](/\ (HasPeriodAndYear /\ "stats-month" \notin dom) =>
                 /\ ctlListeners = NoListeners
                 /\ Len(loads) = (IF pc = "ready" THEN 1 ELSE 0)
          /\ ~HasPeriodAndYear =>
                 /\ loads = <<>>
                 /\ insts = <<>>
                 /\ \A s \in SlotSet : slotChart[s] = Undef)
    /\ [][(AdminDashboardInit /\ HasPeriodAndYear /\ "stats-month" \notin dom) =>
              /\ controls' = controls
              /\ Len(loads') = 1
              /\ ParamOf(loads'[1].params, "period") = controls.period
              /\ ParamOf(loads'[1].params, "year") = controls.year
              /\ HasParam(loads'[1].params, "month") <=> controls.period # "year"
              /\ HasParam(loads'[1].params, "month") =>
                     ParamOf(loads'[1].params, "month") = "1"]_vars

\* no month control: the one request carried the markup's year and month 1 and was
\* rendered, and the year field has changed since without a reload
C19_Witness ==
    /\ HasPeriodAndYear /\ "stats-month" \notin dom
    /\ Len(loads) = 1
    /\ loads[1].stage = "done" /\ ~loads[1].caught
    /\ ParamOf(loads[1].params, "year") = "2025"
    /\ HasParam(loads[1].params, "month") /\ ParamOf(loads[1].params, "month") = "1"
    /\ controls.year = "2026"
    /\ \A s \in SlotSet : slotChart[s] # Undef

\* the step gives slot s a new live chart and destroys the one it had
ReplacedIn(s) ==
    /\ slotChart'[s] > Len(insts)
    /\ insts'[slotChart'[s]].live
    /\ slotChart[s] # Undef => ~insts'[slotChart[s]].live

\* the step leaves slot s with the chart it had, as it was
KeptIn(s) ==
    /\ slotChart'[s] = slotChart[s]
    /\ slotChart[s] # Undef => insts'[slotChart[s]] = insts[slotChart[s]]

\* the first slot, if any, whose render throws on a body of shape sh: a null body
\* fails the first; a dataset that is no array fails its own slot, the time series
\* being read without a call on it
FirstThrow(sh) ==
    IF sh = "null" THEN 1
    ELSE LET bad == {i \in {1, 3, 4} : Kinds(sh)[i] = "object"}
         IN IF bad = {} THEN 5 ELSE CHOOSE i \in bad : \A j \in bad : i <= j

\* the summary load refuses every response that is no success
SummaryRefuses ==
    \A r \in ErrorResponses : SummaryRespond(r) => summary'.stage = "rejected"

\* the chart load looks at neither the status nor the content type
ChartsIgnoreStatus ==
    \A i \in 2..Len(loads), r \in ErrorResponses :
        LoadRespond(i, r) => (loads'[i].stage = "fulfilled" <=> (r.net /\ r.json))

====
